---- MODULE Spec2Model ----
(***************************************************************************)
(* Model of subscription_manager/subscription.py: the Subscription         *)
(* dataclass and the SubscriptionManager that keeps Subscription objects   *)
(* in an insertion-ordered dict keyed by name.                             *)
(*                                                                         *)
(* Subscription objects live on a heap and are referred to by identity, as *)
(* in Python: the dict holds references, and the caller keeps the handles  *)
(* of the objects it constructed.  A datetime.date is its proleptic        *)
(* ordinal (date.min = 1, date.max = 3652059).  A cost is a float: a       *)
(* number with a binary significand of MantBits bits, and every addition   *)
(* rounds its exact result to the nearest such number, ties to even.       *)
(* Every method is an operator from the state it reads to the state it     *)
(* leaves and the exception it raises; an action applies one method call.  *)
(* Spec drives the library through a caller's handles, SpecTotals the      *)
(* totals of a three-entry map, and SpecCli the menu loop of cli.py, whose *)
(* inputs are the texts typed at its prompts.                              *)
(***************************************************************************)
EXTENDS Integers, Sequences, FiniteSets

VARIABLES heap, _subscriptions, ret

vars == <<heap, _subscriptions, ret>>

(***************************************************************************)
(* Bound of the model.                                                     *)
(***************************************************************************)
\* number of Subscription objects the caller constructs
MaxObjs == 2
\* bits in the significand of a float (53 in CPython's binary64)
MantBits == 4

(***************************************************************************)
(* Program constants.                                                      *)
(***************************************************************************)
\* datetime.timedelta(days=30)
RENEW_DAYS == 30
\* datetime.date.min.toordinal() and datetime.date.max.toordinal()
DATE_MIN == 1
DATE_MAX == 3652059

(***************************************************************************)
(* Input domains.                                                          *)
(***************************************************************************)
\* the (name, cost) pairs given to the constructor
Plans == {[name |-> "Netflix", cost |-> 2], [name |-> "Hulu", cost |-> -1]}
Names == {p.name : p \in Plans}
\* renewal dates given to the constructor
ConstructDates == {DATE_MIN + RENEW_DAYS, DATE_MIN + 2 * RENEW_DAYS}
\* reference dates given as today: one before, one on a constructed renewal
\* date, and one from which a renewal period no longer fits below date.max
Todays == {DATE_MIN, DATE_MIN + RENEW_DAYS, DATE_MAX - RENEW_DAYS + 1}
\* values datetime.date.today() can return
ClockDates == {DATE_MIN, DATE_MIN + RENEW_DAYS}
\* an optional argument: left out, or given
Omitted == "omitted"
BoolArgs == {Omitted, "True", "False"}
NoDate == 0
NoError == "None"

(***************************************************************************)
(* Subscription (dataclass)                                                *)
(***************************************************************************)
\* a constructor whose active field defaults to False
Subscription_inactive_default(name, cost, renewal_date, active_arg) ==
  [name |-> name, cost |-> cost, renewal_date |-> renewal_date,
   active |-> active_arg = "True"]

\* Subscription.__init__ as generated by @dataclass: active defaults to True
Subscription(name, cost, renewal_date, active_arg) ==
  [name |-> name, cost |-> cost, renewal_date |-> renewal_date,
   active |-> IF active_arg = Omitted THEN TRUE ELSE active_arg = "True"]

\* a cancel that also resets the renewal date
cancel_reset_date(sub) ==
  [sub EXCEPT !.active = FALSE, !.renewal_date = DATE_MIN]

\* Subscription.cancel
cancel(sub) == [sub EXCEPT !.active = FALSE]

\* date + timedelta raises OverflowError outside date.min .. date.max
date_add_overflows(d, days) == d + days > DATE_MAX \/ d + days < DATE_MIN

\* Subscription.renew, today already defaulted: active is assigned first,
\* then the new date is computed and assigned
renew(sub, today) ==
  IF date_add_overflows(today, RENEW_DAYS)
  THEN [sub |-> [sub EXCEPT !.active = TRUE], raised |-> "OverflowError"]
  ELSE [sub |-> [sub EXCEPT !.active = TRUE,
                            !.renewal_date = today + RENEW_DAYS],
        raised |-> NoError]

\* if today is None: today = datetime.date.today()
today_or_clock(today_arg) ==
  IF today_arg = NoDate THEN ClockDates ELSE {today_arg}

(***************************************************************************)
(* dict operations used by the manager (insertion-ordered)                 *)
(***************************************************************************)
Keys(d) == {d[i].key : i \in DOMAIN d}

\* name in d
Contains(d, name) == name \in Keys(d)

\* d[name]
GetItem(d, name) == d[CHOOSE i \in DOMAIN d : d[i].key = name].ref

\* d[name] = ref : replaces the value in place, or appends a new key
SetItem(d, name, ref) ==
  IF Contains(d, name)
  THEN [i \in DOMAIN d |-> IF d[i].key = name THEN [key |-> name, ref |-> ref]
                                              ELSE d[i]]
  ELSE Append(d, [key |-> name, ref |-> ref])

\* d.clear() in place of del d[name]
DelItem_clear(d, name) == SelectSeq(d, LAMBDA e : FALSE)

\* del d[name]
DelItem(d, name) ==
  LET Keep(e) == e.key # name IN SelectSeq(d, Keep)

\* values iterated from the newest key to the oldest
Values_reversed(d) == [i \in DOMAIN d |-> d[Len(d) + 1 - i].ref]

\* list(d.values())
Values(d) == [i \in DOMAIN d |-> d[i].ref]

(***************************************************************************)
(* SubscriptionManager methods: (heap, dict, arguments) to the state left  *)
(* behind and the exception raised                                         *)
(***************************************************************************)
Return(h, d) == [heap |-> h, subs |-> d, raised |-> NoError]
Raise(h, d, e) == [heap |-> h, subs |-> d, raised |-> e]

\* add_subscription without the duplicate check: the dict assignment
\* replaces the stored object
add_subscription_overwrite(h, d, o) == Return(h, SetItem(d, h[o].name, o))

\* add_subscription without the duplicate check, on a list of pairs
add_subscription_append(h, d, o) ==
  Return(h, Append(d, [key |-> h[o].name, ref |-> o]))

\* an add_subscription that stores a copy of the caller's object
add_subscription_copy(h, d, o) ==
  IF Contains(d, h[o].name)
  THEN Raise(h, d, "ValueError")
  ELSE Return(Append(h, h[o]), SetItem(d, h[o].name, Len(h) + 1))

\* add_subscription(subscription)
add_subscription(h, d, o) ==
  IF Contains(d, h[o].name)
  THEN Raise(h, d, "ValueError")
  ELSE Return(h, SetItem(d, h[o].name, o))

\* remove_subscription that ignores a missing name, as d.pop(name, None)
remove_subscription_discard(h, d, name) == Return(h, DelItem(d, name))

\* remove_subscription(name)
remove_subscription(h, d, name) ==
  IF ~Contains(d, name)
  THEN Raise(h, d, "KeyError")
  ELSE Return(h, DelItem(d, name))

\* the loop with renewal_date < today in place of <=
RECURSIVE auto_cancel_loop_before(_, _, _)
auto_cancel_loop_before(h, refs, today) ==
  IF refs = <<>> THEN h
  ELSE LET r == Head(refs)
           h1 == IF h[r].active /\ h[r].renewal_date < today
                 THEN [h EXCEPT ![r] = cancel(h[r])]
                 ELSE h
       IN auto_cancel_loop_before(h1, Tail(refs), today)

\* the loop cancelling what renews on or after today
RECURSIVE auto_cancel_loop_from(_, _, _)
auto_cancel_loop_from(h, refs, today) ==
  IF refs = <<>> THEN h
  ELSE LET r == Head(refs)
           h1 == IF h[r].active /\ h[r].renewal_date >= today
                 THEN [h EXCEPT ![r] = cancel(h[r])]
                 ELSE h
       IN auto_cancel_loop_from(h1, Tail(refs), today)

\* the loop of auto_cancel_subscriptions over list(values())
RECURSIVE auto_cancel_loop(_, _, _)
auto_cancel_loop(h, refs, today) ==
  IF refs = <<>> THEN h
  ELSE LET r == Head(refs)
           h1 == IF h[r].active /\ h[r].renewal_date <= today
                 THEN [h EXCEPT ![r] = cancel(h[r])]
                 ELSE h
       IN auto_cancel_loop(h1, Tail(refs), today)

\* auto_cancel_subscriptions(today), today already defaulted
auto_cancel_subscriptions(h, d, today) ==
  Return(auto_cancel_loop(h, Values(d), today), d)

\* the system date over one call: clock[1] is what date.today() returns on
\* entry, clock[1 + i] what it would return while the i-th entry is looked
\* at; the date never goes back
ClockRuns(n) ==
  {c \in [1 .. n -> ClockDates] : \A i \in 1 .. (n - 1) : c[i] <= c[i + 1]}

\* a loop that takes date.today() afresh for every entry
RECURSIVE auto_cancel_loop_reread(_, _, _, _)
auto_cancel_loop_reread(h, refs, clock, i) ==
  IF i > Len(refs) THEN h
  ELSE LET r == refs[i]
           h1 == IF h[r].active /\ h[r].renewal_date <= clock[1 + i]
                 THEN [h EXCEPT ![r] = cancel(h[r])]
                 ELSE h
       IN auto_cancel_loop_reread(h1, refs, clock, i + 1)

\* auto_cancel_subscriptions reading the clock inside the loop
auto_cancel_call_reread(h, d, today_arg, clock) ==
  IF today_arg = NoDate
  THEN Return(auto_cancel_loop_reread(h, Values(d), clock, 1), d)
  ELSE auto_cancel_subscriptions(h, d, today_arg)

\* auto_cancel_subscriptions(today=None) while the clock runs: today is
\* defaulted from the clock once, before the loop
auto_cancel_call(h, d, today_arg, clock) ==
  auto_cancel_subscriptions(h, d, IF today_arg = NoDate THEN clock[1]
                                                        ELSE today_arg)

\* renew_subscription(name, today), today already defaulted
renew_subscription(h, d, name, today) ==
  IF ~Contains(d, name)
  THEN Raise(h, d, "KeyError")
  ELSE LET o == GetItem(d, name)
           r == renew(h[o], today)
       IN [heap |-> [h EXCEPT ![o] = r.sub], subs |-> d, raised |-> r.raised]

\* a cancel_subscription that cancels every stored subscription
cancel_subscription_all(h, d, name) ==
  IF ~Contains(d, name)
  THEN Raise(h, d, "KeyError")
  ELSE Return([o \in DOMAIN h |->
                 IF \E i \in DOMAIN d : d[i].ref = o THEN cancel(h[o]) ELSE h[o]],
              d)

\* cancel_subscription(name)
cancel_subscription(h, d, name) ==
  IF ~Contains(d, name)
  THEN Raise(h, d, "KeyError")
  ELSE LET o == GetItem(d, name)
       IN Return([h EXCEPT ![o] = cancel(h[o])], d)

\* get_subscription(name): value is the reference returned
get_subscription(h, d, name) ==
  IF ~Contains(d, name)
  THEN [heap |-> h, subs |-> d, raised |-> "KeyError", value |-> 0]
  ELSE [heap |-> h, subs |-> d, raised |-> NoError, value |-> GetItem(d, name)]

\* list_subscriptions(active_only), active_only already defaulted
list_subscriptions(h, d, active_only) ==
  LET IsActive(r) == h[r].active
  IN IF active_only THEN SelectSeq(Values(d), IsActive) ELSE Values(d)

\* the float nearest to the exact number x, ties to the even significand
float_round(x) ==
  LET a == IF x < 0 THEN -x ELSE x
      e == CHOOSE k \in 0 .. MantBits :
             a < 2 ^ (MantBits + k) /\ (k = 0 \/ a >= 2 ^ (MantBits + k - 1))
      q == a \div 2 ^ e
      r == a % 2 ^ e
      up == 2 * r > 2 ^ e \/ (2 * r = 2 ^ e /\ q % 2 = 1)
      m == (IF up THEN q + 1 ELSE q) * 2 ^ e
  IN IF x < 0 THEN -m ELSE m

\* a + b on floats
float_add(a, b) == float_round(a + b)

\* sum(sub.cost for sub in subs): left to right, starting from 0
RECURSIVE sum_cost(_, _)
sum_cost(h, refs) ==
  IF refs = <<>> THEN 0
  ELSE float_add(sum_cost(h, SubSeq(refs, 1, Len(refs) - 1)),
                 h[refs[Len(refs)]].cost)

\* total_monthly_cost that ignores active_only
total_monthly_cost_all(h, d, active_only) ==
  sum_cost(h, list_subscriptions(h, d, FALSE))

\* total_monthly_cost(active_only), active_only already defaulted
total_monthly_cost(h, d, active_only) ==
  sum_cost(h, list_subscriptions(h, d, active_only))

\* total_savings()
total_savings(h, d) ==
  LET NotActive(r) == ~h[r].active
  IN sum_cost(h, SelectSeq(list_subscriptions(h, d, FALSE), NotActive))

(***************************************************************************)
(* State: the heap of Subscription objects, the manager's dict, and the    *)
(* last call made: its name, the exception it raised, and for a            *)
(* constructor call the active argument as written.                        *)
(***************************************************************************)
Call(op, active_arg, raised) ==
  [op |-> op, active_arg |-> active_arg, raised |-> raised]

\* manager = SubscriptionManager()
Init ==
  /\ heap = <<>>
  /\ _subscriptions = <<>>
  /\ ret = Call("SubscriptionManager", Omitted, NoError)

Objs == DOMAIN heap

\* a manager method call leaves the state its operator computes
Apply(op, r) ==
  /\ heap' = r.heap
  /\ _subscriptions' = r.subs
  /\ ret' = Call(op, Omitted, r.raised)

(***************************************************************************)
(* Calls on Subscription objects through the caller's handles              *)
(***************************************************************************)
\* sub = Subscription(name, cost, renewal_date[, active])
NewSubscription(name, cost, renewal_date, active_arg) ==
  /\ Len(heap) < MaxObjs
  /\ heap' = Append(heap, Subscription(name, cost, renewal_date, active_arg))
  /\ ret' = Call("Subscription", active_arg, NoError)
  /\ UNCHANGED _subscriptions

\* sub.cancel()
SubscriptionCancel(o) ==
  /\ heap' = [heap EXCEPT ![o] = cancel(heap[o])]
  /\ ret' = Call("cancel", Omitted, NoError)
  /\ UNCHANGED _subscriptions

\* sub.renew(today)
SubscriptionRenew(o, today_arg) ==
  \E now \in today_or_clock(today_arg) :
    LET r == renew(heap[o], now) IN
    /\ heap' = [heap EXCEPT ![o] = r.sub]
    /\ ret' = Call("renew", Omitted, r.raised)
    /\ UNCHANGED _subscriptions

(***************************************************************************)
(* SubscriptionManager calls                                               *)
(***************************************************************************)
AddSubscription(o) ==
  Apply("add_subscription", add_subscription(heap, _subscriptions, o))

RemoveSubscription(name) ==
  Apply("remove_subscription", remove_subscription(heap, _subscriptions, name))

AutoCancelSubscriptions(today_arg) ==
  \E clock \in ClockRuns(Len(_subscriptions) + 1) :
    Apply("auto_cancel_subscriptions",
          auto_cancel_call(heap, _subscriptions, today_arg, clock))

RenewSubscription(name, today_arg) ==
  \E now \in today_or_clock(today_arg) :
    Apply("renew_subscription",
          renew_subscription(heap, _subscriptions, name, now))

CancelSubscription(name) ==
  Apply("cancel_subscription", cancel_subscription(heap, _subscriptions, name))

GetSubscription(name) ==
  Apply("get_subscription", get_subscription(heap, _subscriptions, name))

\* list_subscriptions([active_only]): active_only defaults to False; the
\* list returned is list_subscriptions(heap, _subscriptions, flag = "True")
ListSubscriptions(flag) ==
  /\ flag \in BoolArgs
  /\ ret' = Call("list_subscriptions", Omitted, NoError)
  /\ UNCHANGED <<heap, _subscriptions>>

\* total_monthly_cost([active_only]): active_only defaults to True; the sum
\* returned is total_monthly_cost(heap, _subscriptions, flag # "False")
TotalMonthlyCost(flag) ==
  /\ flag \in BoolArgs
  /\ ret' = Call("total_monthly_cost", Omitted, NoError)
  /\ UNCHANGED <<heap, _subscriptions>>

\* total_savings(): returns total_savings(heap, _subscriptions)
TotalSavings ==
  /\ ret' = Call("total_savings", Omitted, NoError)
  /\ UNCHANGED <<heap, _subscriptions>>

Next ==
  \/ \E p \in Plans, d \in ConstructDates, a \in BoolArgs :
       NewSubscription(p.name, p.cost, d, a)
  \/ \E o \in Objs : SubscriptionCancel(o)
  \/ \E o \in Objs, t \in Todays \cup {NoDate} : SubscriptionRenew(o, t)
  \/ \E o \in Objs : AddSubscription(o)
  \/ \E n \in Names : RemoveSubscription(n)
  \/ \E t \in Todays \cup {NoDate} : AutoCancelSubscriptions(t)
  \/ \E n \in Names, t \in Todays \cup {NoDate} : RenewSubscription(n, t)
  \/ \E n \in Names : CancelSubscription(n)
  \/ \E n \in Names : GetSubscription(n)
  \/ \E f \in BoolArgs : ListSubscriptions(f)
  \/ \E f \in BoolArgs : TotalMonthlyCost(f)
  \/ TotalSavings

Spec == Init /\ [][Next]_vars

(***************************************************************************)
(* The totals over a map of three entries whose costs need not add up      *)
(* exactly: the state after three constructions and three adds, then       *)
(* cancellations, renewals and the total queries.                          *)
(***************************************************************************)
TotalsNames == <<"Netflix", "Hulu", "Disney">>
\* costs: one that leaves room in the significand and one that fills it
FloatCosts == {1, 2 ^ MantBits}

InitTotals ==
  \E costs \in [DOMAIN TotalsNames -> FloatCosts] :
    /\ heap = [i \in DOMAIN TotalsNames |->
                 Subscription(TotalsNames[i], costs[i],
                              DATE_MIN + RENEW_DAYS, Omitted)]
    /\ _subscriptions = [i \in DOMAIN TotalsNames |->
                           [key |-> TotalsNames[i], ref |-> i]]
    /\ ret = Call("add_subscription", Omitted, NoError)

NextTotals ==
  \/ \E i \in DOMAIN TotalsNames : CancelSubscription(TotalsNames[i])
  \/ \E i \in DOMAIN TotalsNames, t \in Todays \cup {NoDate} :
       RenewSubscription(TotalsNames[i], t)
  \/ \E f \in BoolArgs : TotalMonthlyCost(f)
  \/ TotalSavings

SpecTotals == InitTotals /\ [][NextTotals]_vars

(***************************************************************************)
(* What a caller can observe of the manager's map                          *)
(***************************************************************************)
\* the keys, in iteration order
KeySeq(d) == [i \in DOMAIN d |-> d[i].key]
\* the stored subscriptions' fields, in iteration order
FieldSeq(h, d) == [i \in DOMAIN d |-> h[d[i].ref]]
\* position of a key
IndexOf(d, name) == CHOOSE i \in DOMAIN d : d[i].key = name
\* a sequence without its i-th element
RemoveAt(s, i) == [j \in 1 .. (Len(s) - 1) |-> IF j < i THEN s[j] ELSE s[j + 1]]
\* the map is exactly what it was: names, order, and every entry's fields
MapUnchanged ==
  /\ KeySeq(_subscriptions') = KeySeq(_subscriptions)
  /\ FieldSeq(heap', _subscriptions') = FieldSeq(heap, _subscriptions)
\* nothing at all changed but the record of the call
StateUnchanged == heap' = heap /\ _subscriptions' = _subscriptions

(***************************************************************************)
(* subscription_manager/cli.py: the text the user types.  A text is the    *)
(* sequence of its characters, already stripped of surrounding blanks.     *)
(***************************************************************************)
Digits == <<"0", "1", "2", "3", "4", "5", "6", "7", "8", "9">>
IsDigit(c) == \E i \in DOMAIN Digits : Digits[i] = c
DigitValue(c) == (CHOOSE i \in DOMAIN Digits : Digits[i] = c) - 1
AllDigits(t) == \A i \in DOMAIN t : IsDigit(t[i])

\* the number written by a sequence of digits
RECURSIVE DecimalValue(_)
DecimalValue(t) ==
  IF t = <<>> THEN 0
  ELSE 10 * DecimalValue(SubSeq(t, 1, Len(t) - 1)) + DigitValue(t[Len(t)])

Parsed(v) == [raised |-> NoError, value |-> v]
ParseError == [raised |-> "ValueError", value |-> 0]

\* float(cost_str) on texts made of a sign and decimal digits; any other
\* text over signs, digits and letters that spell no number is rejected
\* (the forms with a point, an exponent, an underscore, inf and nan are not
\* among the texts typed here)
float(t) ==
  LET signed == t # <<>> /\ t[1] \in {"+", "-"}
      digits == IF signed THEN Tail(t) ELSE t
  IN IF digits = <<>> \/ ~AllDigits(digits) THEN ParseError
     ELSE LET v == float_round(DecimalValue(digits))
          IN Parsed(IF signed /\ t[1] = "-" THEN -v ELSE v)

\* the pieces of a text between its "-" characters
RECURSIVE SplitDash(_)
SplitDash(t) ==
  IF \A i \in DOMAIN t : t[i] # "-" THEN <<t>>
  ELSE LET k == CHOOSE i \in DOMAIN t :
                  t[i] = "-" /\ \A j \in 1 .. (i - 1) : t[j] # "-"
       IN <<SubSeq(t, 1, k - 1)>> \o SplitDash(SubSeq(t, k + 1, Len(t)))

\* %Y: four digits
MatchesYear(f) == Len(f) = 4 /\ AllDigits(f)
\* %m: 1[0-2] | 0[1-9] | [1-9]
MatchesMonth(f) ==
  /\ Len(f) \in {1, 2}
  /\ AllDigits(f)
  /\ DecimalValue(f) \in 1 .. 12
\* %d: 3[01] | [12]\d | 0[1-9] | [1-9] | " "[1-9]
MatchesDay(f) ==
  \/ /\ Len(f) \in {1, 2}
     /\ AllDigits(f)
     /\ DecimalValue(f) \in 1 .. 31
  \/ /\ Len(f) = 2
     /\ f[1] = " "
     /\ IsDigit(f[2])
     /\ DigitValue(f[2]) >= 1

IsLeap(y) == y % 4 = 0 /\ (y % 100 # 0 \/ y % 400 = 0)
DaysInMonth(y, m) ==
  IF m = 2 THEN (IF IsLeap(y) THEN 29 ELSE 28)
  ELSE IF m \in {4, 6, 9, 11} THEN 30 ELSE 31
RECURSIVE DaysBeforeMonth(_, _)
DaysBeforeMonth(y, m) ==
  IF m = 1 THEN 0 ELSE DaysBeforeMonth(y, m - 1) + DaysInMonth(y, m - 1)
\* datetime.date(y, m, d).toordinal()
ToOrdinal(y, m, d) ==
  365 * (y - 1) + (y - 1) \div 4 - (y - 1) \div 100 + (y - 1) \div 400
    + DaysBeforeMonth(y, m) + d

\* parse_date: datetime.datetime.strptime(date_str, "%Y-%m-%d").date()
parse_date(t) ==
  LET f == SplitDash(t)
      dayDigits == IF f[3][1] = " " THEN Tail(f[3]) ELSE f[3]
      y == DecimalValue(f[1])
      m == DecimalValue(f[2])
      d == DecimalValue(dayDigits)
  IN IF Len(f) # 3 THEN ParseError
     ELSE IF ~(MatchesYear(f[1]) /\ MatchesMonth(f[2]) /\ MatchesDay(f[3]))
     THEN ParseError
     ELSE IF y < 1 \/ d > DaysInMonth(y, m) THEN ParseError
     ELSE Parsed(ToOrdinal(y, m, d))

(***************************************************************************)
(* cli.py handlers: (heap, dict, texts typed) to the state left behind,    *)
(* the exception that leaves the handler and the message printed last      *)
(***************************************************************************)
Out(h, d, e, msg) == [heap |-> h, subs |-> d, raised |-> e, printed |-> msg]

\* cli.add_subscription: the Subscription built for a rejected add is
\* dropped with the handler's frame
cli_add_subscription(h, d, name, cost_str, date_input) ==
  LET cost == float(cost_str)
      renewal_date == parse_date(date_input)
      h1 == Append(h, Subscription(name, cost.value, renewal_date.value,
                                   Omitted))
      r == add_subscription(h1, d, Len(h1))
  IN IF cost.raised = "ValueError"
     THEN Out(h, d, NoError, "Invalid cost.")
     ELSE IF renewal_date.raised = "ValueError"
     THEN Out(h, d, NoError, "Invalid date format.")
     ELSE IF r.raised = "ValueError"
     THEN Out(h, d, NoError, "already exists")
     ELSE Out(r.heap, r.subs, r.raised, "added successfully")

\* cli.remove_subscription
cli_remove_subscription(h, d, name) ==
  LET r == remove_subscription(h, d, name)
  IN IF r.raised = "KeyError"
     THEN Out(r.heap, r.subs, NoError, "does not exist")
     ELSE Out(r.heap, r.subs, r.raised, "removed")

\* cli.list_subscriptions
cli_list_subscriptions(h, d, active_only) ==
  IF list_subscriptions(h, d, active_only) = <<>>
  THEN Out(h, d, NoError, "No subscriptions found.")
  ELSE Out(h, d, NoError, "subscriptions")

\* cli.auto_cancel
cli_auto_cancel(h, d, date_input) ==
  LET today == parse_date(date_input)
      r == auto_cancel_subscriptions(h, d, today.value)
  IN IF today.raised = "ValueError"
     THEN Out(h, d, NoError, "Invalid date format.")
     ELSE Out(r.heap, r.subs, r.raised,
              "Subscriptions due for renewal have been cancelled.")

\* cli.renew_subscription: only KeyError is caught
cli_renew_subscription(h, d, name, date_input) ==
  LET today == parse_date(date_input)
      r == renew_subscription(h, d, name, today.value)
  IN IF today.raised = "ValueError"
     THEN Out(h, d, NoError, "Invalid date format.")
     ELSE IF r.raised = "KeyError"
     THEN Out(r.heap, r.subs, NoError, "does not exist")
     ELSE IF r.raised = NoError
     THEN Out(r.heap, r.subs, NoError, "renewed")
     ELSE Out(r.heap, r.subs, r.raised, "Traceback")

\* cli.show_totals
cli_show_totals(h, d) == Out(h, d, NoError, "totals")

(***************************************************************************)
(* cli.main: one action per turn of the loop                               *)
(***************************************************************************)
\* the actions dict of main: menu key to handler (None for Exit)
actions ==
  [c \in {"1", "2", "3", "4", "5", "6", "7", "8"} |->
     CASE c = "1" -> "add_subscription"
       [] c = "2" -> "remove_subscription"
       [] c = "3" -> "list_subscriptions"
       [] c = "4" -> "list_subscriptions_active"
       [] c = "5" -> "auto_cancel"
       [] c = "6" -> "renew_subscription"
       [] c = "7" -> "show_totals"
       [] c = "8" -> "None"]
\* what is typed at "Choose an option: "
Choices == DOMAIN actions \cup {"9", ""}
\* actions.get(choice) is not None and func is the handler named
Chosen(choice, func) == choice \in DOMAIN actions /\ actions[choice] = func

\* what is typed for a cost: 2, -1, not a number, nothing
CostTexts == {<<"2">>, <<"-", "1">>, <<"a", "b", "c">>, <<>>}
\* what is typed for a date: 0001-01-31, 0001-1-31, 9999-12-02,
\* 0001-02-30, 0001/01/31
DateTexts ==
  {<<"0", "0", "0", "1", "-", "0", "1", "-", "3", "1">>,
   <<"0", "0", "0", "1", "-", "1", "-", "3", "1">>,
   <<"9", "9", "9", "9", "-", "1", "2", "-", "0", "2">>,
   <<"0", "0", "0", "1", "-", "0", "2", "-", "3", "0">>,
   <<"0", "0", "0", "1", "/", "0", "1", "/", "3", "1">>}

CliCall(op, raised, printed) ==
  [op |-> op, active_arg |-> Omitted, raised |-> raised, printed |-> printed]

\* main up to the first prompt
InitCli ==
  /\ heap = <<>>
  /\ _subscriptions = <<>>
  /\ ret = CliCall("main", NoError, "Subscription Manager CLI")

\* the loop is still prompting: no break, no exception out of a handler
Running == ret.op # "Exit" /\ ret.raised = NoError

\* func(manager), for the handler chosen at the prompt
Handle(op, r) ==
  /\ Running
  /\ heap' = r.heap
  /\ _subscriptions' = r.subs
  /\ ret' = CliCall(op, r.raised, r.printed)

\* choice 1
CliAddSubscription(name, cost_str, date_input) ==
  /\ Len(heap) < MaxObjs
  /\ Handle("add_subscription",
            cli_add_subscription(heap, _subscriptions, name, cost_str,
                                 date_input))

\* choice 2
CliRemoveSubscription(name) ==
  Handle("remove_subscription",
         cli_remove_subscription(heap, _subscriptions, name))

\* choices 3 and 4
CliListSubscriptions(active_only) ==
  Handle("list_subscriptions",
         cli_list_subscriptions(heap, _subscriptions, active_only))

\* choice 5
CliAutoCancel(date_input) ==
  Handle("auto_cancel", cli_auto_cancel(heap, _subscriptions, date_input))

\* choice 6
CliRenewSubscription(name, date_input) ==
  Handle("renew_subscription",
         cli_renew_subscription(heap, _subscriptions, name, date_input))

\* choice 7
CliShowTotals ==
  Handle("show_totals", cli_show_totals(heap, _subscriptions))

\* choice 8: break
CliExit ==
  /\ Running
  /\ ret' = CliCall("Exit", NoError, "Goodbye!")
  /\ UNCHANGED <<heap, _subscriptions>>

\* actions.get(choice) is None: continue
CliInvalidChoice ==
  /\ Running
  /\ ret' = CliCall("None", NoError, "Invalid choice.")
  /\ UNCHANGED <<heap, _subscriptions>>

\* one turn of while True in main, for every choice that can be typed
NextCli ==
  \/ \E choice \in Choices : choice \notin DOMAIN actions /\ CliInvalidChoice
  \/ \E choice \in Choices :
       choice \in DOMAIN actions /\ choice = "8" /\ CliExit
  \/ \E choice \in Choices, n \in Names, c \in CostTexts, t \in DateTexts :
       Chosen(choice, "add_subscription") /\ CliAddSubscription(n, c, t)
  \/ \E choice \in Choices, n \in Names :
       Chosen(choice, "remove_subscription") /\ CliRemoveSubscription(n)
  \/ \E choice \in Choices :
       Chosen(choice, "list_subscriptions") /\ CliListSubscriptions(FALSE)
  \/ \E choice \in Choices :
       Chosen(choice, "list_subscriptions_active") /\ CliListSubscriptions(TRUE)
  \/ \E choice \in Choices, t \in DateTexts :
       Chosen(choice, "auto_cancel") /\ CliAutoCancel(t)
  \/ \E choice \in Choices, n \in Names, t \in DateTexts :
       Chosen(choice, "renew_subscription") /\ CliRenewSubscription(n, t)
  \/ \E choice \in Choices : Chosen(choice, "show_totals") /\ CliShowTotals

SpecCli == InitCli /\ [][NextCli]_vars

(***************************************************************************)
(* C1: add(subscription) with a name already in the map raises ValueError  *)
(* and leaves names, order and the existing entry's fields unchanged; with *)
(* an absent name it succeeds and the map gains exactly that one entry.    *)
(***************************************************************************)
C1_AddStep(o) ==
  LET name == heap[o].name IN
  IF \E i \in DOMAIN _subscriptions : _subscriptions[i].key = name
  THEN /\ ret'.raised = "ValueError"
       /\ MapUnchanged
  ELSE /\ ret'.raised = NoError
       /\ KeySeq(_subscriptions') = Append(KeySeq(_subscriptions), name)
       /\ FieldSeq(heap', _subscriptions')
            = Append(FieldSeq(heap, _subscriptions), heap[o])

C1_AddDuplicateRejected ==
  [][ret'.op = "add_subscription"
       => \A o \in Objs : AddSubscription(o) => C1_AddStep(o)]_vars

\* a second object named like a stored one, with another renewal date and
\* active flag, was rejected
C1_Witness ==
  /\ ret.op = "add_subscription"
  /\ ret.raised = "ValueError"
  /\ \E i \in DOMAIN _subscriptions, o \in Objs :
       /\ o # _subscriptions[i].ref
       /\ heap[o].name = _subscriptions[i].key
       /\ heap[o].renewal_date # heap[_subscriptions[i].ref].renewal_date
       /\ heap[o].active # heap[_subscriptions[i].ref].active

(***************************************************************************)
(* C2: auto_cancel(today) sets active to false for exactly the entries     *)
(* that were active with renewal_date <= today, leaves every other entry   *)
(* unchanged, never changes names, order, costs or renewal dates, and      *)
(* raises nothing.                                                         *)
(***************************************************************************)
C2_AutoCancelStep(today) ==
  /\ ret'.raised = NoError
  /\ _subscriptions' = _subscriptions
  /\ \A i \in DOMAIN _subscriptions :
       LET before == heap[_subscriptions[i].ref]
           after == heap'[_subscriptions[i].ref]
       IN /\ after.name = before.name
          /\ after.cost = before.cost
          /\ after.renewal_date = before.renewal_date
          /\ after.active = (before.active /\ before.renewal_date > today)

C2_AutoCancelExact ==
  [][ret'.op = "auto_cancel_subscriptions"
       => /\ \A t \in Todays :
               AutoCancelSubscriptions(t) => C2_AutoCancelStep(t)
          /\ AutoCancelSubscriptions(NoDate)
               => \E now \in ClockDates : C2_AutoCancelStep(now)]_vars

\* auto_cancel cancelled the due entry and left the later one active
C2_Witness ==
  /\ ret.op = "auto_cancel_subscriptions"
  /\ \E i, j \in DOMAIN _subscriptions :
       /\ ~heap[_subscriptions[i].ref].active
       /\ heap[_subscriptions[j].ref].active
       /\ heap[_subscriptions[i].ref].renewal_date
            < heap[_subscriptions[j].ref].renewal_date

(***************************************************************************)
(* C3: manager renew(name, today) on a present name, active or cancelled,  *)
(* leaves that entry with active = true and renewal_date = today + 30      *)
(* days; on an absent name it raises KeyError.                             *)
(***************************************************************************)
C3_RenewStep(name, today) ==
  IF \E i \in DOMAIN _subscriptions : _subscriptions[i].key = name
  THEN LET after == heap'[_subscriptions[IndexOf(_subscriptions, name)].ref]
       IN /\ after.active
          /\ after.renewal_date = today + RENEW_DAYS
  ELSE ret'.raised = "KeyError"

C3_RenewByName ==
  [][ret'.op = "renew_subscription"
       => \A n \in Names, t \in Todays :
            RenewSubscription(n, t) => C3_RenewStep(n, t)]_vars

(***************************************************************************)
(* C4: remove(name), get(name), renew(name, d) and cancel(name) raise      *)
(* KeyError whenever name is not a key of the map, and then the manager    *)
(* state is exactly what it was before the call.                           *)
(***************************************************************************)
C4_ByNameCall(n) ==
  \/ RemoveSubscription(n)
  \/ GetSubscription(n)
  \/ CancelSubscription(n)
  \/ \E t \in Todays \cup {NoDate} : RenewSubscription(n, t)

C4_NotFoundLeavesState ==
  [][ret'.op \in {"remove_subscription", "get_subscription",
                   "renew_subscription", "cancel_subscription"}
       => \A n \in Names :
            ((\A i \in DOMAIN _subscriptions : _subscriptions[i].key # n)
               /\ C4_ByNameCall(n))
              => (ret'.raised = "KeyError" /\ StateUnchanged
                    /\ MapUnchanged)]_vars

\* a call by a name that is not stored failed while another name is stored
C4_Witness ==
  /\ ret.raised = "KeyError"
  /\ ret.op \in {"remove_subscription", "get_subscription",
                 "renew_subscription", "cancel_subscription"}
  /\ _subscriptions # <<>>
  /\ \E o \in Objs : ~heap[o].active

(***************************************************************************)
(* C5: a successful remove(name) deletes exactly the entry for name;       *)
(* afterwards get(name) and a second remove(name) raise KeyError, and add  *)
(* of a subscription with that name succeeds again.                        *)
(***************************************************************************)
C5_RemoveStep(n) ==
  LET i == IndexOf(_subscriptions, n) IN
  /\ ret'.raised = NoError
  /\ heap' = heap
  /\ _subscriptions' = RemoveAt(_subscriptions, i)
  /\ get_subscription(heap', _subscriptions', n).raised = "KeyError"
  /\ remove_subscription(heap', _subscriptions', n).raised = "KeyError"
  /\ \A o \in Objs :
       heap[o].name = n =>
         LET r == add_subscription(heap', _subscriptions', o) IN
         /\ r.raised = NoError
         /\ KeySeq(r.subs) = Append(KeySeq(_subscriptions'), n)

C5_RemoveThenReusable ==
  [][ret'.op = "remove_subscription"
       => \A n \in Names :
            ((\E i \in DOMAIN _subscriptions : _subscriptions[i].key = n)
               /\ RemoveSubscription(n))
              => C5_RemoveStep(n)]_vars

\* an entry was removed from a map that still holds the other one
C5_Witness ==
  /\ ret.op = "remove_subscription"
  /\ ret.raised = NoError
  /\ Len(_subscriptions) = 1
  /\ \E o \in Objs : heap[o].name # _subscriptions[1].key

(***************************************************************************)
(* C6: in every reachable state each key of the map equals the name field  *)
(* of the subscription stored under it, and no two stored entries have the *)
(* same name.                                                              *)
(***************************************************************************)
C6_KeysAreNames ==
  /\ \A i \in DOMAIN _subscriptions :
       _subscriptions[i].key = heap[_subscriptions[i].ref].name
  /\ \A i, j \in DOMAIN _subscriptions :
       i # j => /\ _subscriptions[i].key # _subscriptions[j].key
                /\ heap[_subscriptions[i].ref].name
                     # heap[_subscriptions[j].ref].name

\* an add has just run on a manager that holds both names, one of them
\* cancelled
C6_Witness ==
  /\ Len(_subscriptions) = Cardinality(Names)
  /\ ret.op = "add_subscription"
  /\ \E i \in DOMAIN _subscriptions : ~heap[_subscriptions[i].ref].active

(***************************************************************************)
(* C7: list(active_only=false) returns every entry of the map exactly      *)
(* once, in the order of the successful add calls that inserted them;      *)
(* list(active_only=true) returns exactly the active entries in that same  *)
(* relative order; cancel, renew and auto_cancel never change the order.   *)
(***************************************************************************)
C7_Position(s, x) == CHOOSE i \in DOMAIN s : s[i] = x

C7_NoRepeats(s) == \A i, j \in DOMAIN s : i # j => s[i] # s[j]

\* what the two lists are, for a given heap and dict
C7_Lists(h, d) ==
  LET all == list_subscriptions(h, d, FALSE)
      act == list_subscriptions(h, d, TRUE)
  IN /\ Len(all) = Len(d)
     /\ \A i \in DOMAIN d : \E j \in DOMAIN all : all[j] = d[i].ref
     /\ C7_NoRepeats(all)
     /\ C7_NoRepeats(act)
     /\ {act[i] : i \in DOMAIN act}
          = {all[i] : i \in {j \in DOMAIN all : h[all[j]].active}}
     /\ \A i, j \in DOMAIN act :
          i < j => C7_Position(all, act[i]) < C7_Position(all, act[j])

\* how the full list changes from one call to the next
C7_Order ==
  LET all == list_subscriptions(heap, _subscriptions, FALSE)
      all2 == list_subscriptions(heap', _subscriptions', FALSE)
  IN IF ret'.op = "add_subscription" /\ ret'.raised = NoError
     THEN \E o \in Objs : /\ \A i \in DOMAIN all : all[i] # o
                          /\ all2 = Append(all, o)
     ELSE IF ret'.op = "remove_subscription" /\ ret'.raised = NoError
     THEN \E i \in DOMAIN all : all2 = RemoveAt(all, i)
     ELSE all2 = all

C7_ListInsertionOrder ==
  [][C7_Order /\ C7_Lists(heap', _subscriptions')]_vars

\* two entries are listed, and only the one added second is active
C7_Witness ==
  /\ ret.op = "list_subscriptions"
  /\ Len(list_subscriptions(heap, _subscriptions, FALSE)) = 2
  /\ list_subscriptions(heap, _subscriptions, TRUE)
       = <<list_subscriptions(heap, _subscriptions, FALSE)[2]>>

(***************************************************************************)
(* C8: total_monthly_cost(active_only=true) is the sum of cost over the    *)
(* active entries, total_monthly_cost(active_only=false) the sum over all  *)
(* entries, total_savings() the sum over the inactive entries; each is 0   *)
(* when its set of entries is empty.                                       *)
(***************************************************************************)
RECURSIVE C8_SumOver(_)
C8_SumOver(I) ==
  IF I = {} THEN 0
  ELSE LET i == CHOOSE x \in I : TRUE
       IN heap[_subscriptions[i].ref].cost + C8_SumOver(I \ {i})

C8_ActiveEntries ==
  {i \in DOMAIN _subscriptions : heap[_subscriptions[i].ref].active}

C8_Totals ==
  /\ total_monthly_cost(heap, _subscriptions, TRUE)
       = C8_SumOver(C8_ActiveEntries)
  /\ total_monthly_cost(heap, _subscriptions, FALSE)
       = C8_SumOver(DOMAIN _subscriptions)
  /\ total_savings(heap, _subscriptions)
       = C8_SumOver(DOMAIN _subscriptions \ C8_ActiveEntries)
  /\ C8_ActiveEntries = {}
       => total_monthly_cost(heap, _subscriptions, TRUE) = 0
  /\ _subscriptions = <<>>
       => total_monthly_cost(heap, _subscriptions, FALSE) = 0
  /\ C8_ActiveEntries = DOMAIN _subscriptions
       => total_savings(heap, _subscriptions) = 0

\* totals asked of a manager holding an active and a cancelled entry of
\* different costs
C8_Witness ==
  /\ ret.op = "total_monthly_cost"
  /\ \E i, j \in DOMAIN _subscriptions :
       /\ heap[_subscriptions[i].ref].active
       /\ ~heap[_subscriptions[j].ref].active
       /\ heap[_subscriptions[i].ref].cost # heap[_subscriptions[j].ref].cost

(***************************************************************************)
(* C9: Subscription.renew(d) always leaves active = true and renewal_date  *)
(* = d + 30 days, computed from d and never from the stored renewal_date,  *)
(* for every date d, whatever the prior renewal_date and active flag; a    *)
(* repeated renew(d) leaves the same state as one call.                    *)
(***************************************************************************)
C9_RenewStep(o, d) ==
  /\ ret'.raised = NoError
  /\ heap'[o].active
  /\ heap'[o].renewal_date = d + RENEW_DAYS
  /\ renew(heap'[o], d).sub = heap'[o]

C9_RenewFromPassedDate ==
  [][ret'.op = "renew"
       => \A o \in Objs, d \in Todays :
            SubscriptionRenew(o, d) => C9_RenewStep(o, d)]_vars

(***************************************************************************)
(* C10: immediately after construction a subscription has active = true.   *)
(* As stated, for every construction:                                      *)
(***************************************************************************)
C10_ActiveAfterConstruction ==
  ret.op = "Subscription" => heap[Len(heap)].active

(***************************************************************************)
(* C10 as amended: a subscription constructed without an active argument   *)
(* has active = true immediately after construction; an active argument    *)
(* that is given is stored as given.                                       *)
(***************************************************************************)
C10_ActiveByDefault ==
  ret.op = "Subscription" =>
    /\ ret.active_arg = Omitted => heap[Len(heap)].active
    /\ ret.active_arg = "True" => heap[Len(heap)].active
    /\ ret.active_arg = "False" => ~heap[Len(heap)].active

\* the second object has just been constructed without an active argument
C10_Witness ==
  /\ ret.op = "Subscription"
  /\ ret.active_arg = Omitted
  /\ Len(heap) = 2
  /\ heap[2].active
  /\ ~heap[1].active

(***************************************************************************)
(* C11: cancel() on a subscription, and cancel_subscription(name) on a     *)
(* stored name, set active to False and leave name, cost and renewal_date  *)
(* as they were; the call raises nothing, and on a subscription that is    *)
(* already cancelled it changes nothing at all.                            *)
(***************************************************************************)
C11_CancelStep(o) ==
  /\ ret'.raised = NoError
  /\ heap'[o].active = FALSE
  /\ heap'[o].name = heap[o].name
  /\ heap'[o].cost = heap[o].cost
  /\ heap'[o].renewal_date = heap[o].renewal_date
  /\ ~heap[o].active => heap'[o] = heap[o]
  /\ cancel(heap'[o]) = heap'[o]

C11_CancelKeepsFields ==
  [][ret'.op \in {"cancel", "cancel_subscription"} =>
       /\ \A o \in Objs : SubscriptionCancel(o) => C11_CancelStep(o)
       /\ \A n \in Names :
            (Contains(_subscriptions, n) /\ CancelSubscription(n)) =>
              C11_CancelStep(GetItem(_subscriptions, n))]_vars

\* a stored subscription has just been cancelled by name
C11_Witness ==
  /\ ret.op = "cancel_subscription"
  /\ ret.raised = NoError
  /\ \E i \in DOMAIN _subscriptions :
       /\ ~heap[_subscriptions[i].ref].active
       /\ heap[_subscriptions[i].ref].renewal_date \in ConstructDates

(***************************************************************************)
(* C12: every subscription held by the manager has a cost that is not      *)
(* negative, so the active total, the total over all entries and the       *)
(* savings total are never negative.                                       *)
(***************************************************************************)
C12_CostsNonNegative ==
  /\ \A i \in DOMAIN _subscriptions : heap[_subscriptions[i].ref].cost >= 0
  /\ total_monthly_cost(heap, _subscriptions, TRUE) >= 0
  /\ total_monthly_cost(heap, _subscriptions, FALSE) >= 0
  /\ total_savings(heap, _subscriptions) >= 0

(***************************************************************************)
(* C15: the manager stores the caller's object itself.  A successful add   *)
(* of the handle o allocates nothing and get(o.name) then returns o; while *)
(* a name stays in the map, get(name) returns the same object after every  *)
(* call, so what is read through the handle and through get is one object. *)
(***************************************************************************)
C15_Got(h, d, n) == get_subscription(h, d, n).value

C15_StoresHandle ==
  [][/\ (ret'.op = "add_subscription" /\ ret'.raised = NoError) =>
          \A o \in Objs : AddSubscription(o) =>
             /\ C15_Got(heap', _subscriptions', heap[o].name) = o
             /\ DOMAIN heap' = DOMAIN heap
             /\ heap'[o] = heap[o]
      /\ \A n \in Names :
           (Contains(_subscriptions, n) /\ Contains(_subscriptions', n)) =>
              C15_Got(heap', _subscriptions', n) = C15_Got(heap, _subscriptions, n)
     ]_vars

\* the only object was added and then cancelled through the caller's
\* handle: get reads it as inactive
C15_Witness ==
  /\ ret.op = "cancel"
  /\ Len(heap) = 1
  /\ Contains(_subscriptions, heap[1].name)
  /\ C15_Got(heap, _subscriptions, heap[1].name) = 1
  /\ ~heap[C15_Got(heap, _subscriptions, heap[1].name)].active

(***************************************************************************)
(* C16: one auto_cancel call judges every entry against one date.  With    *)
(* the date argument left out, that date is the clock's value on entry:    *)
(* however the clock advances while the entries are looked at, an entry is *)
(* cancelled exactly when it was active and due on the date read first.    *)
(***************************************************************************)
C16_OneReferenceDate ==
  [][ret'.op = "auto_cancel_subscriptions" =>
       \A clock \in ClockRuns(Len(_subscriptions) + 1) :
          Apply("auto_cancel_subscriptions",
                auto_cancel_call(heap, _subscriptions, NoDate, clock))
            => C2_AutoCancelStep(clock[1])]_vars

\* an auto_cancel left active an entry that is due on a date the clock
\* can reach after the first reading
C16_Witness ==
  /\ ret.op = "auto_cancel_subscriptions"
  /\ \E i \in DOMAIN _subscriptions :
       LET sub == heap[_subscriptions[i].ref]
       IN /\ sub.active
          /\ \E c \in ClockDates : sub.renewal_date <= c
  /\ \E i \in DOMAIN _subscriptions : ~heap[_subscriptions[i].ref].active

(***************************************************************************)
(* C18: auto_cancel is idempotent and monotone in its date.  From every    *)
(* reachable state and for dates d1 <= d2, auto_cancel(d1) followed by     *)
(* auto_cancel(d2) leaves the state auto_cancel(d2) alone leaves; with     *)
(* d1 = d2 this says that running it twice is running it once.             *)
(***************************************************************************)
C18_Dates ==
  Todays \cup ConstructDates
         \cup {DATE_MIN + RENEW_DAYS - 1, DATE_MIN + RENEW_DAYS + 1, DATE_MAX}

C18_After(r, d) == auto_cancel_subscriptions(r.heap, r.subs, d)

C18_IdempotentMonotone ==
  LET now == Return(heap, _subscriptions)
  IN \A d1, d2 \in C18_Dates :
       d1 <= d2 => C18_After(C18_After(now, d1), d2) = C18_After(now, d2)

\* after an auto_cancel, the first entry is cancelled and the second is
\* active and due later: a later date still changes the state
C18_Witness ==
  /\ ret.op = "auto_cancel_subscriptions"
  /\ Len(_subscriptions) = 2
  /\ ~heap[_subscriptions[1].ref].active
  /\ heap[_subscriptions[2].ref].active
  /\ heap[_subscriptions[1].ref].renewal_date
       < heap[_subscriptions[2].ref].renewal_date
  /\ C18_After(Return(heap, _subscriptions), DATE_MAX).heap # heap

(***************************************************************************)
(* C19: a stored subscription renewed with reference date d stays active   *)
(* through every auto_cancel(d2) with d2 < d + 30 days, in particular      *)
(* through auto_cancel(d) run right after the renewal, and the first       *)
(* auto_cancel(d2) with d2 >= d + 30 days cancels it.  Until then only a   *)
(* cancel, a renew or an auto_cancel changes a subscription.               *)
(***************************************************************************)
C19_Probes(d) ==
  {x \in Todays \cup {d, d + RENEW_DAYS - 1, d + RENEW_DAYS, d + RENEW_DAYS + 1} :
     x >= DATE_MIN /\ x <= DATE_MAX}

\* the stored object o as auto_cancel(d2) would leave it after this step
C19_ThenAutoCancel(o, d2) ==
  auto_cancel_subscriptions(heap', _subscriptions', d2).heap[o]

C19_RenewedWith(o, d) ==
  \A d2 \in C19_Probes(d) :
     C19_ThenAutoCancel(o, d2).active = (d2 < d + RENEW_DAYS)

C19_Changing ==
  {"Subscription", "cancel", "cancel_subscription", "renew",
   "renew_subscription", "auto_cancel_subscriptions"}

C19_RenewalHolds ==
  [][/\ ret'.op = "renew_subscription" =>
          \A n \in Names, d \in Todays \cup ClockDates :
             ((/\ Contains(_subscriptions, n)
               /\ Apply("renew_subscription",
                        renew_subscription(heap, _subscriptions, n, d)))
                => C19_RenewedWith(GetItem(_subscriptions, n), d))
      /\ (ret'.op \notin C19_Changing => heap' = heap)
     ]_vars

\* the same, for the renewals that return normally
C19_CompletedRenewalHolds ==
  [][/\ (ret'.op = "renew_subscription" /\ ret'.raised = NoError) =>
          \A n \in Names, d \in Todays \cup ClockDates :
             ((/\ Contains(_subscriptions, n)
               /\ Apply("renew_subscription",
                        renew_subscription(heap, _subscriptions, n, d)))
                => C19_RenewedWith(GetItem(_subscriptions, n), d))
      /\ (ret'.op \notin C19_Changing => heap' = heap)
     ]_vars

(***************************************************************************)
(* C20: a call addressed to one name touches only that entry.  add(sub),   *)
(* remove(name), cancel(name) and renew(name, d) leave the cost, the       *)
(* renewal_date, the active flag and the relative order of the entries     *)
(* with any other name as they were; get, list, total_monthly_cost and     *)
(* total_savings leave the whole state as it was.                          *)
(***************************************************************************)
\* the entries stored under another name, in order, with their fields
C20_Others(h, d, n) ==
  LET Other(e) == e.key # n IN FieldSeq(h, SelectSeq(d, Other))

C20_OthersUntouched(n) ==
  C20_Others(heap', _subscriptions', n) = C20_Others(heap, _subscriptions, n)

C20_Queries ==
  {"get_subscription", "list_subscriptions", "total_monthly_cost",
   "total_savings"}

C17_TotalsAddUp ==
  float_add(total_monthly_cost(heap, _subscriptions, TRUE),
            total_savings(heap, _subscriptions))
    = total_monthly_cost(heap, _subscriptions, FALSE)

(***************************************************************************)
(* C13: in the CLI, an add whose cost text is not numeric or whose date    *)
(* text is not in YYYY-MM-DD form, and an auto-cancel or a renew whose     *)
(* date text is not in YYYY-MM-DD form, returns with the manager state     *)
(* as it was before the action.                                            *)
(***************************************************************************)
\* a sign, or none, and decimal digits
C13_Numeric(t) ==
  \/ t # <<>> /\ AllDigits(t)
  \/ Len(t) > 1 /\ t[1] \in {"+", "-"} /\ AllDigits(Tail(t))

\* four digits, two digits and two digits, with "-" between them
C13_YYYY_MM_DD(t) ==
  /\ Len(t) = 10
  /\ \A i \in {1, 2, 3, 4, 6, 7, 9, 10} : IsDigit(t[i])
  /\ t[5] = "-"
  /\ t[8] = "-"

C13_MalformedChangesNothing ==
  [][/\ (ret'.op = "add_subscription" =>
            \A n \in Names, c \in CostTexts, t \in DateTexts :
               ((~C13_Numeric(c) \/ ~C13_YYYY_MM_DD(t))
                  /\ CliAddSubscription(n, c, t)) => StateUnchanged)
      /\ (ret'.op = "auto_cancel" =>
            \A t \in DateTexts :
               (~C13_YYYY_MM_DD(t) /\ CliAutoCancel(t)) => StateUnchanged)
      /\ (ret'.op = "renew_subscription" =>
            \A n \in Names, t \in DateTexts :
               (~C13_YYYY_MM_DD(t) /\ CliRenewSubscription(n, t))
                 => StateUnchanged)
     ]_vars

\* the same, for the texts that float() and parse_date reject
C13_RejectedChangesNothing ==
  [][/\ (ret'.op = "add_subscription" =>
            \A n \in Names, c \in CostTexts, t \in DateTexts :
               ((float(c).raised # NoError \/ parse_date(t).raised # NoError)
                  /\ CliAddSubscription(n, c, t)) => StateUnchanged)
      /\ (ret'.op = "auto_cancel" =>
            \A t \in DateTexts :
               (parse_date(t).raised # NoError /\ CliAutoCancel(t))
                 => StateUnchanged)
      /\ (ret'.op = "renew_subscription" =>
            \A n \in Names, t \in DateTexts :
               (parse_date(t).raised # NoError /\ CliRenewSubscription(n, t))
                 => StateUnchanged)
     ]_vars

(***************************************************************************)
(* C14: no CLI action lets a manager error out of its handler.  An add of  *)
(* a stored name and a remove or renew of a name not stored print their    *)
(* message and leave the state as it was, a choice that is not in the menu *)
(* changes nothing, and the loop stops prompting only on choice 8.         *)
(***************************************************************************)
C14_ErrorsAreCaught ==
  [][/\ ret'.raised = NoError
      /\ (~Running' => ret'.op = "Exit")
      /\ (ret'.op = "None" => StateUnchanged)
      /\ (ret'.op = "add_subscription" =>
            \A n \in Names, c \in CostTexts, t \in DateTexts :
               (/\ Contains(_subscriptions, n)
                /\ float(c).raised = NoError
                /\ parse_date(t).raised = NoError
                /\ CliAddSubscription(n, c, t))
                 => (ret'.printed = "already exists" /\ StateUnchanged))
      /\ (ret'.op = "remove_subscription" =>
            \A n \in Names :
               (~Contains(_subscriptions, n) /\ CliRemoveSubscription(n))
                 => (ret'.printed = "does not exist" /\ StateUnchanged))
      /\ (ret'.op = "renew_subscription" =>
            \A n \in Names, t \in DateTexts :
               (/\ ~Contains(_subscriptions, n)
                /\ parse_date(t).raised = NoError
                /\ CliRenewSubscription(n, t))
                 => (ret'.printed = "does not exist" /\ StateUnchanged))
     ]_vars

\* the same, but for an OverflowError out of the renew handler
C14_OnlyOverflowEscapes ==
  [][/\ (ret'.raised # NoError =>
            ret'.op = "renew_subscription" /\ ret'.raised = "OverflowError")
      /\ (~Running' => ret'.op = "Exit" \/ ret'.raised = "OverflowError")
      /\ (ret'.op = "None" => StateUnchanged)
      /\ (ret'.op = "add_subscription" =>
            \A n \in Names, c \in CostTexts, t \in DateTexts :
               (/\ Contains(_subscriptions, n)
                /\ float(c).raised = NoError
                /\ parse_date(t).raised = NoError
                /\ CliAddSubscription(n, c, t))
                 => (ret'.printed = "already exists" /\ StateUnchanged))
      /\ (ret'.op = "remove_subscription" =>
            \A n \in Names :
               (~Contains(_subscriptions, n) /\ CliRemoveSubscription(n))
                 => (ret'.printed = "does not exist" /\ StateUnchanged))
      /\ (ret'.op = "renew_subscription" =>
            \A n \in Names, t \in DateTexts :
               (/\ ~Contains(_subscriptions, n)
                /\ parse_date(t).raised = NoError
                /\ CliRenewSubscription(n, t))
                 => (ret'.printed = "does not exist" /\ StateUnchanged))
     ]_vars

====
